---- MODULE Spec2Model ----
(***************************************************************************)
(* Model of etaskflow_rs (src/src/taskflow.rs): a tree of Tasks and        *)
(* Conditions executed over a host State.  The recursion of execute() is   *)
(* modelled by an explicit call stack: each frame is one activation of     *)
(* execute() of one node, each action one step of that activation (issue   *)
(* the next child call, or consume the child's Result and go on).          *)
(* Every call and every return is appended to `log`, so that the order of  *)
(* invocations is part of the state.                                       *)
(***************************************************************************)
EXTENDS Integers, Sequences, FiniteSets, TLC

VARIABLES root, input, stack, result, log

vars == <<root, input, stack, result, log>>

\* ---------------------------------------------------------------- bounds
\* longest child list of a Sequence / Or / Concurrent / Promise that is built
MaxTasks == 3
\* largest N of a Condition "num < N"
MaxN == 3
\* a Loop issues at most this many body calls in the model (the code has no cap)
MaxIter == MaxN + 1

\* ---------------------------------------------------------------- values
\* enum Error { NoResult }
Error == {"NoResult"}

\* struct TestState { num: i32 }
TestState(n) == [num |-> n]

\* impl Clone for TestState
clone(s) == TestState(s.num)

\* impl State<TestState> for TestState: merge keeps self.num
merge(a, b) == TestState(a.num)

\* Result<T, Error>
Ok(v) == [tag |-> "Ok", val |-> v]
Err(e) == [tag |-> "Err", error |-> e]
is_ok(r) == r.tag = "Ok"

\* no Result delivered yet to the activation
NoRet == [tag |-> "None"]

\* Option<&dyn Task<T>>
None == <<>>
Some(t) == <<t>>
is_some(o) == Len(o) > 0
unwrap(o) == o[1]

\* ---------------------------------------------------------------- host code
\* closures handed to new_task: |a| Ok(TestState { num: a.num + k }), a closure
\* that reports failure, and a closure that overwrites num
Add(k) == [op |-> "add", k |-> k]
Fail == [op |-> "fail", k |-> 0]
SetTo(k) == [op |-> "set", k |-> k]
Methods == {Add(1), Add(2), Add(3), Fail, SetTo(0)}

\* (self.method)(state)
ApplyMethod(m, s) ==
    CASE m.op = "add" -> Ok(TestState(s.num + m.k))
      [] m.op = "set" -> Ok(TestState(m.k))
      [] m.op = "fail" -> Err("NoResult")

\* Result<bool, Error>
OkBool(b) == [tag |-> "Ok", cond |-> b]

\* host implementations of trait Condition: "num < k", always true, always
\* false, and one that fails
Lt(k) == [kind |-> "cond", op |-> "lt", k |-> k]
CondTrue == [kind |-> "cond", op |-> "true", k |-> 0]
CondFalse == [kind |-> "cond", op |-> "false", k |-> 0]
CondFail == [kind |-> "cond", op |-> "fail", k |-> 0]
Conditions == {Lt(k) : k \in 0..MaxN} \cup {CondTrue, CondFalse, CondFail}

ApplyCondition(c, s) ==
    CASE c.op = "lt" -> OkBool(s.num < c.k)
      [] c.op = "true" -> OkBool(TRUE)
      [] c.op = "false" -> OkBool(FALSE)
      [] c.op = "fail" -> Err("NoResult")

\* ---------------------------------------------------------------- constructors
new_task(method) == [kind |-> "leaf", method |-> method]
sequence_task(tasks) == [kind |-> "seq", tasks |-> tasks]
or_task(tasks) == [kind |-> "or", tasks |-> tasks]
if_task(condition, then_do) ==
    [kind |-> "if", condition |-> condition, then_do |-> then_do,
     default_do |-> None]
\* with_default that drops the task
with_default_Dropped(self, task) == self
with_default(self, task) == [self EXCEPT !.default_do = Some(task)]
loop_task(condition, task) ==
    [kind |-> "loop", condition |-> condition, task |-> task]
\* struct literals: the source has no constructor function for these two
ConcurrentTask(tasks) == [kind |-> "conc", tasks |-> tasks]
PromiseTask(init_task, other_tasks) ==
    [kind |-> "promise", init_task |-> init_task, other_tasks |-> other_tasks]

\* ---------------------------------------------------------------- task trees
Leaves == {new_task(m) : m \in Methods}
Lists(S) == UNION {[1..n -> S] : n \in 0..MaxTasks}
Inputs == {TestState(0), TestState(100)}

SequenceRoots == {sequence_task(ts) : ts \in Lists(Leaves)}
OrRoots == {or_task(ts) : ts \in Lists(Leaves)}
ConcurrentRoots == {ConcurrentTask(ts) : ts \in Lists(Leaves)}
IfRoots ==
    {if_task(c, t) : c \in Conditions, t \in Leaves}
    \cup {with_default(if_task(c, t), d) : c \in Conditions, t \in Leaves, d \in Leaves}
LoopRoots == {loop_task(c, t) : c \in Conditions, t \in Leaves}
Slots == {None} \cup {Some(t) : t \in Leaves}
PromiseRoots == {PromiseTask(t, os) : t \in Leaves, os \in Lists(Slots)}
NestedRoots ==
    {sequence_task(<<sequence_task(<<a, b>>), c>>) : a \in Leaves, b \in Leaves, c \in Leaves}
    \cup {or_task(<<sequence_task(<<a, b>>), c>>) : a \in Leaves, b \in Leaves, c \in Leaves}
\* promise(seed_to_0, [None, +5, None, +2])
PromiseExample ==
    PromiseTask(new_task(SetTo(0)),
                <<None, Some(new_task(Add(5))), None, Some(new_task(Add(2)))>>)
\* an Or inside a Sequence
OrInSequenceRoots ==
    {sequence_task(<<or_task(<<a, b>>), c>>) : a \in Leaves, b \in Leaves, c \in Leaves}
Roots == SequenceRoots \cup OrRoots \cup ConcurrentRoots \cup IfRoots
         \cup LoopRoots \cup PromiseRoots \cup NestedRoots
         \cup {PromiseExample} \cup OrInSequenceRoots

\* ---------------------------------------------------------------- activations
\* one activation of execute(): the node, its position in the tree, the local
\* `state`, the number of child calls issued (i), the Result the last child
\* call delivered (ret), and the number of Loop body calls issued (iter)
Frame(t, p, s) ==
    [task |-> t, path |-> p, state |-> s, i |-> 0, ret |-> NoRet, iter |-> 0]

\* what one step of an activation does: call a child, or return
DoCall(f, t, p, s) == [op |-> "call", frame |-> f, task |-> t, path |-> p, arg |-> s]
DoReturn(r) == [op |-> "return", res |-> r]

Top == stack[Len(stack)]

CallEvent(p, s) == [ev |-> "call", path |-> p, val |-> s]
RetEvent(p, r) == [ev |-> "ret", path |-> p, val |-> r]

\* the call stack, the log and the root's result after a step o taken in m
After(m, o) ==
    IF o.op = "call"
    THEN [stack |-> Append([m.stack EXCEPT ![Len(m.stack)] = o.frame],
                           Frame(o.task, o.path, o.arg)),
          log |-> Append(m.log, CallEvent(o.path, o.arg)),
          result |-> m.result]
    ELSE [stack |-> IF Len(m.stack) = 1 THEN <<>>
                    ELSE [SubSeq(m.stack, 1, Len(m.stack) - 1)
                            EXCEPT ![Len(m.stack) - 1].ret = o.res],
          log |-> Append(m.log, RetEvent(m.stack[Len(m.stack)].path, o.res)),
          result |-> IF Len(m.stack) = 1 THEN o.res ELSE m.result]

\* the effect of a step on the call stack, the log and the root's result
Perform(o) ==
    LET m == After([stack |-> stack, log |-> log, result |-> result], o)
    IN /\ stack' = m.stack
       /\ log' = m.log
       /\ result' = m.result
       /\ UNCHANGED <<root, input>>

\* ---------------------------------------------------------------- execute()
\* TaskImpl::execute
TaskImplExecute(f) == DoReturn(ApplyMethod(f.task.method, f.state))

\* Condition::execute
ConditionExecute(f) == DoReturn(ApplyCondition(f.task, f.state))

\* SequenceTask::execute that hands every child the Sequence's own input
SequenceExecute_NoThreading(f) ==
    IF f.ret.tag = "Err"
    THEN DoReturn(f.ret)
    ELSE IF f.i < Len(f.task.tasks)
         THEN DoCall([f EXCEPT !.i = f.i + 1, !.ret = NoRet],
                     f.task.tasks[f.i + 1], Append(f.path, f.i + 1), f.state)
         ELSE DoReturn(IF f.ret.tag = "Ok" THEN f.ret ELSE Ok(f.state))

\* SequenceTask::execute that answers a child's error with the State so far
SequenceExecute_SwallowError(f) ==
    IF f.ret.tag = "Err"
    THEN DoReturn(Ok(f.state))
    ELSE LET st == IF f.ret.tag = "Ok" THEN f.ret.val ELSE f.state
         IN IF f.i < Len(f.task.tasks)
            THEN DoCall([f EXCEPT !.state = st, !.i = f.i + 1, !.ret = NoRet],
                        f.task.tasks[f.i + 1], Append(f.path, f.i + 1), st)
            ELSE DoReturn(Ok(st))

\* SequenceTask::execute without the `?`: a failed child is skipped
SequenceExecute_IgnoreError(f) ==
    LET st == IF f.ret.tag = "Ok" THEN f.ret.val ELSE f.state
    IN IF f.i < Len(f.task.tasks)
       THEN DoCall([f EXCEPT !.state = st, !.i = f.i + 1, !.ret = NoRet],
                   f.task.tasks[f.i + 1], Append(f.path, f.i + 1), st)
       ELSE DoReturn(Ok(st))

\* SequenceTask::execute
SequenceExecute(f) ==
    IF f.ret.tag = "Err"
    THEN DoReturn(f.ret)
    ELSE LET st == IF f.ret.tag = "Ok" THEN f.ret.val ELSE f.state
         IN IF f.i < Len(f.task.tasks)
            THEN DoCall([f EXCEPT !.state = st, !.i = f.i + 1, !.ret = NoRet],
                        f.task.tasks[f.i + 1], Append(f.path, f.i + 1), st)
            ELSE DoReturn(Ok(st))

\* OrTask::execute that honours a success only of the last child
OrExecute_NoShortCircuit(f) ==
    IF is_ok(f.ret) /\ f.i = Len(f.task.tasks)
    THEN DoReturn(f.ret)
    ELSE IF f.i < Len(f.task.tasks)
         THEN DoCall([f EXCEPT !.i = f.i + 1, !.ret = NoRet],
                     f.task.tasks[f.i + 1], Append(f.path, f.i + 1), clone(f.state))
         ELSE DoReturn(Err("NoResult"))

\* OrTask::execute that gives up at the first failing child
OrExecute_StopAtFailure(f) ==
    IF is_ok(f.ret)
    THEN DoReturn(f.ret)
    ELSE IF f.i < Len(f.task.tasks) /\ f.i = 0
         THEN DoCall([f EXCEPT !.i = f.i + 1, !.ret = NoRet],
                     f.task.tasks[f.i + 1], Append(f.path, f.i + 1), clone(f.state))
         ELSE DoReturn(Err("NoResult"))

\* the State most recently produced anywhere in the tree, s if there is none
RECURSIVE LastStateIn(_, _)
LastStateIn(l, s) ==
    IF Len(l) = 0 THEN s
    ELSE LET e == l[Len(l)]
         IN IF e.ev = "ret" /\ e.val.tag = "Ok" /\ "val" \in DOMAIN e.val
            THEN e.val.val
            ELSE LastStateIn(SubSeq(l, 1, Len(l) - 1), s)

\* OrTask::execute without the clone: the children work on one shared State
OrExecute_SharedState(f) ==
    IF is_ok(f.ret)
    THEN DoReturn(f.ret)
    ELSE IF f.i < Len(f.task.tasks)
         THEN DoCall([f EXCEPT !.i = f.i + 1, !.ret = NoRet],
                     f.task.tasks[f.i + 1], Append(f.path, f.i + 1),
                     LastStateIn(log, f.state))
         ELSE DoReturn(Err("NoResult"))

\* OrTask::execute
OrExecute(f) ==
    IF is_ok(f.ret)
    THEN DoReturn(f.ret)
    ELSE IF f.i < Len(f.task.tasks)
         THEN DoCall([f EXCEPT !.i = f.i + 1, !.ret = NoRet],
                     f.task.tasks[f.i + 1], Append(f.path, f.i + 1), clone(f.state))
         ELSE DoReturn(Err("NoResult"))

\* ConcurrentTask::execute that runs its children one after the other
ConcurrentExecute_RunsChildren(f) ==
    IF f.ret.tag = "Err"
    THEN DoReturn(f.ret)
    ELSE IF f.i < Len(f.task.tasks)
         THEN DoCall([f EXCEPT !.i = f.i + 1, !.ret = NoRet],
                     f.task.tasks[f.i + 1], Append(f.path, f.i + 1), clone(f.state))
         ELSE DoReturn(Err("NoResult"))

\* ConcurrentTask::execute: the loop body is empty
ConcurrentExecute(f) == DoReturn(Err("NoResult"))

\* IfTask::execute that takes a failed Condition for false
IfExecute_ErrorAsFalse(f) ==
    IF f.i = 0
    THEN DoCall([f EXCEPT !.i = 1], f.task.condition, Append(f.path, 0), clone(f.state))
    ELSE IF f.i = 1
    THEN IF f.ret.tag = "Ok" /\ f.ret.cond
         THEN DoCall([f EXCEPT !.i = 2, !.ret = NoRet],
                     f.task.then_do, Append(f.path, 1), f.state)
         ELSE IF is_some(f.task.default_do)
              THEN DoCall([f EXCEPT !.i = 2, !.ret = NoRet],
                          unwrap(f.task.default_do), Append(f.path, 2), f.state)
              ELSE DoReturn(Err("NoResult"))
    ELSE DoReturn(f.ret)

\* IfTask::execute with the two branches exchanged
IfExecute_Swapped(f) ==
    IF f.i = 0
    THEN DoCall([f EXCEPT !.i = 1], f.task.condition, Append(f.path, 0), clone(f.state))
    ELSE IF f.i = 1
    THEN IF f.ret.tag = "Err"
         THEN DoReturn(f.ret)
         ELSE IF ~f.ret.cond
              THEN DoCall([f EXCEPT !.i = 2, !.ret = NoRet],
                          f.task.then_do, Append(f.path, 1), f.state)
              ELSE IF is_some(f.task.default_do)
                   THEN DoCall([f EXCEPT !.i = 2, !.ret = NoRet],
                               unwrap(f.task.default_do), Append(f.path, 2), f.state)
                   ELSE DoReturn(Err("NoResult"))
    ELSE DoReturn(f.ret)

\* IfTask::execute; children: condition 0, then_do 1, default_do 2
IfExecute(f) ==
    IF f.i = 0
    THEN DoCall([f EXCEPT !.i = 1], f.task.condition, Append(f.path, 0), clone(f.state))
    ELSE IF f.i = 1
    THEN IF f.ret.tag = "Err"
         THEN DoReturn(f.ret)
         ELSE IF f.ret.cond
              THEN DoCall([f EXCEPT !.i = 2, !.ret = NoRet],
                          f.task.then_do, Append(f.path, 1), f.state)
              ELSE IF is_some(f.task.default_do)
                   THEN DoCall([f EXCEPT !.i = 2, !.ret = NoRet],
                               unwrap(f.task.default_do), Append(f.path, 2), f.state)
                   ELSE DoReturn(Err("NoResult"))
    ELSE DoReturn(f.ret)

\* LoopTask::execute that tests the body's State but does not keep it
LoopExecute_StaleState(f) ==
    IF f.i = 0
    THEN DoCall([f EXCEPT !.i = 1, !.ret = NoRet], f.task.condition,
                Append(f.path, 0), clone(f.state))
    ELSE IF f.i = 1
    THEN IF f.ret.tag = "Err"
         THEN DoReturn(f.ret)
         ELSE IF f.ret.cond
              THEN DoCall([f EXCEPT !.i = 2, !.ret = NoRet, !.iter = f.iter + 1],
                          f.task.task, Append(f.path, 1), f.state)
              ELSE DoReturn(Ok(f.state))
    ELSE IF f.ret.tag = "Err"
         THEN DoReturn(f.ret)
         ELSE DoCall([f EXCEPT !.i = 1, !.ret = NoRet],
                     f.task.condition, Append(f.path, 0), clone(f.ret.val))

\* LoopTask::execute with `break` where the code has `?`
LoopExecute_ErrorEndsLoop(f) ==
    IF f.i = 0
    THEN DoCall([f EXCEPT !.i = 1, !.ret = NoRet], f.task.condition,
                Append(f.path, 0), clone(f.state))
    ELSE IF f.i = 1
    THEN IF f.ret.tag = "Err"
         THEN DoReturn(Ok(f.state))
         ELSE IF f.ret.cond
              THEN DoCall([f EXCEPT !.i = 2, !.ret = NoRet, !.iter = f.iter + 1],
                          f.task.task, Append(f.path, 1), f.state)
              ELSE DoReturn(Ok(f.state))
    ELSE IF f.ret.tag = "Err"
         THEN DoReturn(Ok(f.state))
         ELSE DoCall([f EXCEPT !.state = f.ret.val, !.i = 1, !.ret = NoRet],
                     f.task.condition, Append(f.path, 0), clone(f.ret.val))

\* LoopTask::execute with an iteration cap of two
LoopExecute_Capped(f) ==
    IF f.i = 0
    THEN DoCall([f EXCEPT !.i = 1, !.ret = NoRet], f.task.condition,
                Append(f.path, 0), clone(f.state))
    ELSE IF f.i = 1
    THEN IF f.ret.tag = "Err"
         THEN DoReturn(f.ret)
         ELSE IF f.ret.cond /\ f.iter < 2
              THEN DoCall([f EXCEPT !.i = 2, !.ret = NoRet, !.iter = f.iter + 1],
                          f.task.task, Append(f.path, 1), f.state)
              ELSE DoReturn(Ok(f.state))
    ELSE IF f.ret.tag = "Err"
         THEN DoReturn(f.ret)
         ELSE DoCall([f EXCEPT !.state = f.ret.val, !.i = 1, !.ret = NoRet],
                     f.task.condition, Append(f.path, 0), clone(f.ret.val))

\* LoopTask::execute unrolled: two body runs for each test
LoopExecute_BodyTwice(f) ==
    IF f.i = 0
    THEN DoCall([f EXCEPT !.i = 1, !.ret = NoRet], f.task.condition,
                Append(f.path, 0), clone(f.state))
    ELSE IF f.i = 1
    THEN IF f.ret.tag = "Err"
         THEN DoReturn(f.ret)
         ELSE IF f.ret.cond
              THEN DoCall([f EXCEPT !.i = 2, !.ret = NoRet, !.iter = f.iter + 1],
                          f.task.task, Append(f.path, 1), f.state)
              ELSE DoReturn(Ok(f.state))
    ELSE IF f.ret.tag = "Err"
         THEN DoReturn(f.ret)
         ELSE IF f.iter % 2 = 1
              THEN DoCall([f EXCEPT !.state = f.ret.val, !.ret = NoRet, !.iter = f.iter + 1],
                          f.task.task, Append(f.path, 1), f.ret.val)
              ELSE DoCall([f EXCEPT !.state = f.ret.val, !.i = 1, !.ret = NoRet],
                          f.task.condition, Append(f.path, 0), clone(f.ret.val))

\* LoopTask::execute as a do-while: the body runs before the first test
LoopExecute_DoWhile(f) ==
    IF f.i = 0
    THEN DoCall([f EXCEPT !.i = 2, !.ret = NoRet, !.iter = f.iter + 1],
                f.task.task, Append(f.path, 1), f.state)
    ELSE IF f.i = 1
    THEN IF f.ret.tag = "Err"
         THEN DoReturn(f.ret)
         ELSE IF f.ret.cond
              THEN DoCall([f EXCEPT !.i = 2, !.ret = NoRet, !.iter = f.iter + 1],
                          f.task.task, Append(f.path, 1), f.state)
              ELSE DoReturn(Ok(f.state))
    ELSE IF f.ret.tag = "Err"
         THEN DoReturn(f.ret)
         ELSE DoCall([f EXCEPT !.state = f.ret.val, !.i = 1, !.ret = NoRet],
                     f.task.condition, Append(f.path, 0), clone(f.ret.val))

\* LoopTask::execute; children: condition 0, task 1.  i = 0: evaluate the
\* condition; i = 1: its Result is in ret; i = 2: the body's Result is in ret
LoopExecute(f) ==
    IF f.i = 0
    THEN DoCall([f EXCEPT !.i = 1, !.ret = NoRet], f.task.condition,
                Append(f.path, 0), clone(f.state))
    ELSE IF f.i = 1
    THEN IF f.ret.tag = "Err"
         THEN DoReturn(f.ret)
         ELSE IF f.ret.cond
              THEN DoCall([f EXCEPT !.i = 2, !.ret = NoRet, !.iter = f.iter + 1],
                          f.task.task, Append(f.path, 1), f.state)
              ELSE DoReturn(Ok(f.state))
    ELSE IF f.ret.tag = "Err"
         THEN DoReturn(f.ret)
         ELSE DoCall([f EXCEPT !.state = f.ret.val, !.i = 1, !.ret = NoRet],
                     f.task.condition, Append(f.path, 0), clone(f.ret.val))

\* index of the first present slot after slot i, or Len + 1
RECURSIVE NextSlot(_, _)
NextSlot(os, i) ==
    IF i >= Len(os) THEN Len(os) + 1
    ELSE IF is_some(os[i + 1]) THEN i + 1 ELSE NextSlot(os, i + 1)

\* PromiseTask::execute that goes on after a failed follow-up
PromiseExecute_SkipFailed(f) ==
    LET st == IF f.ret.tag = "Ok" THEN f.ret.val ELSE f.state
        k == NextSlot(f.task.other_tasks, f.i)
    IN IF k <= Len(f.task.other_tasks)
       THEN DoCall([f EXCEPT !.state = st, !.i = k, !.ret = NoRet],
                   unwrap(f.task.other_tasks[k]), Append(f.path, k), st)
       ELSE DoReturn(Ok(st))

\* PromiseTask::execute; children: other_tasks k at k (init_task is not run)
PromiseExecute(f) ==
    IF f.ret.tag = "Err"
    THEN DoReturn(f.ret)
    ELSE LET st == IF f.ret.tag = "Ok" THEN f.ret.val ELSE f.state
             k == NextSlot(f.task.other_tasks, f.i)
         IN IF k <= Len(f.task.other_tasks)
            THEN DoCall([f EXCEPT !.state = st, !.i = k, !.ret = NoRet],
                        unwrap(f.task.other_tasks[k]), Append(f.path, k), st)
            ELSE DoReturn(Ok(st))

\* ---------------------------------------------------------------- machine
Init ==
    /\ root \in Roots
    /\ input \in Inputs
    /\ stack = <<Frame(root, <<>>, input)>>
    /\ result = NoRet
    /\ log = <<CallEvent(<<>>, input)>>

Running(kind) == Len(stack) > 0 /\ Top.task.kind = kind

TaskImplStep == Running("leaf") /\ Perform(TaskImplExecute(Top))
ConditionStep == Running("cond") /\ Perform(ConditionExecute(Top))
SequenceStep == Running("seq") /\ Perform(SequenceExecute(Top))
OrStep == Running("or") /\ Perform(OrExecute(Top))
ConcurrentStep == Running("conc") /\ Perform(ConcurrentExecute(Top))
IfStep == Running("if") /\ Perform(IfExecute(Top))
\* the model stops a Loop that has issued MaxIter body calls and would go on
LoopStep ==
    /\ Running("loop")
    /\ (LoopExecute(Top).op = "call" => LoopExecute(Top).frame.iter <= MaxIter)
    /\ Perform(LoopExecute(Top))
PromiseStep == Running("promise") /\ Perform(PromiseExecute(Top))

Next ==
    \/ TaskImplStep
    \/ ConditionStep
    \/ SequenceStep
    \/ OrStep
    \/ ConcurrentStep
    \/ IfStep
    \/ LoopStep
    \/ PromiseStep

Spec == Init /\ [][Next]_vars

\* ---------------------------------------------------------------- observation
\* the root's execute() has returned
Done == result.tag # "None"

IsChildCall(e) == e.ev = "call" /\ Len(e.path) = 1
IsChildRet(e) == e.ev = "ret" /\ Len(e.path) = 1
\* the calls the root made to its own children, and the Results it got back
ChildCalls == SelectSeq(log, IsChildCall)
ChildRets == SelectSeq(log, IsChildRet)

\* the root's children were called in list order, one call each
CalledInListOrder == \A k \in 1..Len(ChildCalls) : ChildCalls[k].path = <<k>>

PlusOneTwoThree == <<new_task(Add(1)), new_task(Add(2)), new_task(Add(3))>>

\* C1: a Sequence calls its children once each in list order, the first with
\* the input State and each later one with the State the previous child
\* returned; when all succeed it returns Ok of the last child's State
\* (+1, +2, +3 on num = 100 gives num = 106).
C1_SequenceThreadsState ==
    root.kind = "seq" =>
        /\ CalledInListOrder
        /\ \A k \in 1..Len(ChildCalls) :
              IF k = 1 THEN ChildCalls[k].val = input
              ELSE ChildRets[k - 1].val = Ok(ChildCalls[k].val)
        /\ (Done /\ \A k \in 1..Len(ChildRets) : is_ok(ChildRets[k].val)) =>
              /\ Len(ChildCalls) = Len(root.tasks)
              /\ Len(ChildRets) = Len(root.tasks)
              /\ result = IF Len(root.tasks) = 0 THEN Ok(input)
                          ELSE ChildRets[Len(root.tasks)].val
        /\ (Done /\ root = sequence_task(PlusOneTwoThree) /\ input = TestState(100)) =>
              result = Ok(TestState(106))

C1_Witness ==
    /\ Done
    /\ root = sequence_task(PlusOneTwoThree)
    /\ input = TestState(100)
    /\ Len(ChildCalls) = 3
    /\ result = Ok(TestState(106))

\* C2: a Sequence is fail-fast: once a child has returned an error no further
\* child is called, and the Sequence returns that error, not a State.
C2_SequenceFailFast ==
    root.kind = "seq" =>
        \A k \in 1..Len(ChildRets) :
            ~is_ok(ChildRets[k].val) =>
                /\ Len(ChildCalls) = k
                /\ \A j \in 1..(k - 1) : is_ok(ChildRets[j].val)
                /\ Done => result = ChildRets[k].val

C2_Witness ==
    /\ Done
    /\ root.kind = "seq"
    /\ Len(root.tasks) = 3
    /\ Len(ChildRets) = 2
    /\ is_ok(ChildRets[1].val)
    /\ ChildRets[1].val # Ok(input)
    /\ ~is_ok(ChildRets[2].val)
    /\ result = Err("NoResult")

FailFailOk(m) == <<new_task(Fail), new_task(Fail), new_task(m)>>

\* C3: an Or calls its children in list order and stops at the first success:
\* once a child has returned Ok, every earlier child has failed, no later
\* child is ever called, and the Or returns that child's Result on the input
\* State (or([fail, fail, ok]) returns what ok returns on the input).
C3_OrFirstSuccess ==
    root.kind = "or" =>
        /\ CalledInListOrder
        /\ \A k \in 1..Len(ChildRets) :
              is_ok(ChildRets[k].val) =>
                  /\ Len(ChildCalls) = k
                  /\ \A j \in 1..(k - 1) : ~is_ok(ChildRets[j].val)
                  /\ ChildCalls[k].val = input
                  /\ root.tasks[k].kind = "leaf" =>
                        ChildRets[k].val = ApplyMethod(root.tasks[k].method, input)
                  /\ Done => result = ChildRets[k].val
        /\ \A m \in Methods :
              (Done /\ root = or_task(FailFailOk(m))) => result = ApplyMethod(m, input)

C3_Witness ==
    /\ Done
    /\ root.kind = "or"
    /\ Len(root.tasks) = 3
    /\ Len(ChildCalls) = 2
    /\ ~is_ok(ChildRets[1].val)
    /\ is_ok(ChildRets[2].val)
    /\ result = ChildRets[2].val

\* C4: an Or whose children all fail returns Err(NoResult), after having
\* called every child once, in list order.
C4_OrAllFail ==
    (root.kind = "or" /\ Done /\ \A k \in 1..Len(ChildRets) : ~is_ok(ChildRets[k].val)) =>
        /\ result = Err("NoResult")
        /\ Len(ChildCalls) = Len(root.tasks)
        /\ Len(ChildRets) = Len(root.tasks)
        /\ CalledInListOrder

C4_Witness ==
    /\ Done
    /\ root = or_task(<<new_task(Fail), new_task(Fail), new_task(Fail)>>)
    /\ Len(ChildRets) = 3
    /\ result = Err("NoResult")

\* C5: every child an Or calls is called with the Or's input State, whatever
\* earlier failed children did; an Or that returns Ok returns the State of
\* the child that succeeded.
C5_OrIndependentCopies ==
    root.kind = "or" =>
        /\ \A k \in 1..Len(ChildCalls) : ChildCalls[k].val = input
        /\ (Done /\ is_ok(result)) =>
              /\ Len(ChildRets) > 0
              /\ result = ChildRets[Len(ChildRets)].val
              /\ \A j \in 1..(Len(ChildRets) - 1) : ~is_ok(ChildRets[j].val)

\* the first branch changed its copy and then failed; the second branch ran
C5_Witness ==
    /\ Done
    /\ root = or_task(<<sequence_task(<<new_task(Add(1)), new_task(Fail)>>), new_task(Add(2))>>)
    /\ Len(ChildCalls) = 2
    /\ ChildCalls[2].val = input
    /\ result = Ok(TestState(input.num + 2))

\* the States the children of a Concurrent produce from their copies of s
ChildStates(ts, s) == [k \in 1..Len(ts) |-> ApplyMethod(ts[k].method, clone(s)).val]

\* merge applied pairwise, left to right, over the first n States of ss
RECURSIVE MergeInOrder(_, _)
MergeInOrder(ss, n) ==
    IF n = 1 THEN ss[1] ELSE merge(MergeInOrder(ss, n - 1), ss[n])

\* C6: a Concurrent whose children all succeed returns Ok of the children's
\* States, each produced from a copy of the input, merged pairwise in
\* declaration order.
C6_ConcurrentMergesInOrder ==
    (/\ root.kind = "conc"
     /\ Len(root.tasks) > 0
     /\ \A k \in 1..Len(root.tasks) : is_ok(ApplyMethod(root.tasks[k].method, clone(input)))
     /\ Done) =>
        result = Ok(MergeInOrder(ChildStates(root.tasks, input), Len(root.tasks)))

\* C7: a Concurrent with no children returns Ok of its input State.
C7_ConcurrentEmptyReturnsInput ==
    (root = ConcurrentTask(<<>>) /\ Done) => result = Ok(input)

\* C8: when the Condition of an If yields true on the input, the If evaluates
\* the Condition once on the input, then calls "then" on the input, never
\* calls "default", and returns what "then" returned.
C8_IfTrueRunsThen ==
    (root.kind = "if" /\ ApplyCondition(root.condition, input) = OkBool(TRUE)) =>
        /\ Len(ChildCalls) <= 2
        /\ \A k \in 1..Len(ChildCalls) :
              ChildCalls[k] = CallEvent(<<k - 1>>, input)
        /\ Done =>
              /\ Len(ChildCalls) = 2
              /\ ChildRets[1].val = OkBool(TRUE)
              /\ result = ChildRets[2].val
              /\ result = ApplyMethod(root.then_do.method, input)

C8_Witness ==
    /\ Done
    /\ root.kind = "if"
    /\ is_some(root.default_do)
    /\ unwrap(root.default_do) # root.then_do
    /\ ApplyCondition(root.condition, input) = OkBool(TRUE)
    /\ Len(ChildCalls) = 2
    /\ is_ok(result)

\* C9: when the Condition of an If yields false on the input: with a default
\* (with_default) the If returns what "default" returns on the input; without
\* one it returns Err(NoResult); "then" is never called.
C9_IfFalseRunsDefault ==
    \A c \in Conditions, t \in Leaves :
        (/\ ApplyCondition(c, input) = OkBool(FALSE)
         /\ \/ root = if_task(c, t)
            \/ \E d \in Leaves : root = with_default(if_task(c, t), d)) =>
            /\ \A k \in 1..Len(ChildCalls) : ChildCalls[k].path # <<1>>
            /\ Done =>
                  /\ root = if_task(c, t) =>
                        /\ result = Err("NoResult")
                        /\ Len(ChildCalls) = 1
                  /\ \A d \in Leaves :
                        root = with_default(if_task(c, t), d) =>
                            /\ ChildCalls = <<CallEvent(<<0>>, input), CallEvent(<<2>>, input)>>
                            /\ result = ChildRets[2].val
                            /\ result = ApplyMethod(d.method, input)

C9_Witness ==
    /\ Done
    /\ root = with_default(if_task(Lt(0), new_task(Add(1))), new_task(Add(2)))
    /\ Len(ChildCalls) = 2
    /\ result = Ok(TestState(input.num + 2))

\* the Loop "while num < n: num + 1"
CountTo(n) == loop_task(Lt(n), new_task(Add(1)))
IsBodyCall(e) == e.ev = "call" /\ e.path = <<1>>
BodyCalls == SelectSeq(log, IsBodyCall)

\* C10: for every N, the Loop with Condition "num < N" and body "num + 1"
\* started from num = 0 runs the body exactly N times and returns Ok with
\* num = N.
C10_LoopCountsToN ==
    \A n \in 0..MaxN :
        (root = CountTo(n) /\ input = TestState(0)) =>
            /\ Len(BodyCalls) <= n
            /\ Done => (Len(BodyCalls) = n /\ result = Ok(TestState(n)))

C10_Witness ==
    /\ Done
    /\ root = CountTo(3)
    /\ input = TestState(0)
    /\ Len(BodyCalls) = 3
    /\ result = Ok(TestState(3))

IsConditionCall(e) == e.ev = "call" /\ e.path = <<0>>
ConditionCalls == SelectSeq(log, IsConditionCall)

\* C11: a Loop that returns Ok(s') returns the State on which its last
\* Condition evaluation ran, and the Condition is false on it; a Loop whose
\* Condition is false on the input never calls the body and returns the input.
C11_LoopReturnsWhereConditionFalse ==
    root.kind = "loop" =>
        /\ (Done /\ is_ok(result)) =>
              /\ ApplyCondition(root.condition, result.val) = OkBool(FALSE)
              /\ ChildRets[Len(ChildRets)].val = OkBool(FALSE)
              /\ ChildCalls[Len(ChildCalls)] = CallEvent(<<0>>, result.val)
        /\ ApplyCondition(root.condition, input) = OkBool(FALSE) =>
              /\ Len(BodyCalls) = 0
              /\ Done => result = Ok(input)

\* a Loop that ran its body and then returned Ok
C11_Witness ==
    /\ Done
    /\ root.kind = "loop"
    /\ is_ok(result)
    /\ Len(BodyCalls) >= 2
    /\ result.val # input

\* C12: a Loop aborts on the first failure: an error returned by the
\* Condition or by the body is the last thing the Loop called, and the Loop
\* returns that error.
C12_LoopFailFast ==
    root.kind = "loop" =>
        \A k \in 1..Len(ChildRets) :
            ChildRets[k].val.tag = "Err" =>
                /\ Len(ChildRets) = k
                /\ Len(ChildCalls) = k
                /\ Done => result = ChildRets[k].val

\* a Loop whose Condition held and whose body then failed
C12_Witness ==
    /\ Done
    /\ root.kind = "loop"
    /\ Len(ChildRets) = 2
    /\ ChildRets[1].val = OkBool(TRUE)
    /\ ChildRets[2].val = Err("NoResult")
    /\ result = Err("NoResult")

\* a body that succeeds on every State
AlwaysSucceeds(t) == t.kind = "leaf" /\ t.method.op # "fail"

\* C13: a Loop with an always-true Condition and an always-succeeding body
\* never returns: whatever the number of iterations done, its next step is
\* another call.
C13_LoopNeverReturns ==
    (root.kind = "loop" /\ root.condition = CondTrue /\ AlwaysSucceeds(root.task)) =>
        /\ ~Done
        /\ Len(stack) > 0
        /\ Running("loop") => LoopExecute(Top).op = "call"

\* the Loop is still running after MaxIter body calls
C13_Witness ==
    /\ root = loop_task(CondTrue, new_task(Add(1)))
    /\ Len(BodyCalls) = MaxIter
    /\ Running("loop")
    /\ Top.state = TestState(input.num + MaxIter)
    /\ ~Done

\* C14: a Promise first calls the initializing Task on the input, then the
\* present follow-up slots in slot order, each on the State the previous
\* step returned; promise(seed_to_0, [None, +5, None, +2]) returns num = 7.
C14_PromiseRunsInitFirst ==
    root.kind = "promise" =>
        /\ Len(ChildCalls) >= 1 => ChildCalls[1] = CallEvent(<<0>>, input)
        /\ \A k \in 2..Len(ChildCalls) : ChildRets[k - 1].val = Ok(ChildCalls[k].val)
        /\ Done => Len(ChildCalls) >= 1
        /\ (Done /\ root = PromiseExample) => result = Ok(TestState(7))

\* C15: a Promise is fail-fast over every task it holds: when the
\* initializing Task fails on the input the Promise returns that error and
\* calls no follow-up; when a follow-up fails the Promise returns that error
\* and calls no later slot.
C15_PromiseFailFast ==
    root.kind = "promise" =>
        /\ ~is_ok(ApplyMethod(root.init_task.method, input)) =>
              /\ \A k \in 1..Len(ChildCalls) : ChildCalls[k].path = <<0>>
              /\ Done => result = ApplyMethod(root.init_task.method, input)
        /\ \A k \in 1..Len(ChildRets) :
              ~is_ok(ChildRets[k].val) =>
                  /\ Len(ChildCalls) = k
                  /\ Done => result = ChildRets[k].val

\* the step of the activation f, by the kind of its node
StepOf(f) ==
    CASE f.task.kind = "leaf" -> TaskImplExecute(f)
      [] f.task.kind = "cond" -> ConditionExecute(f)
      [] f.task.kind = "seq" -> SequenceExecute(f)
      [] f.task.kind = "or" -> OrExecute(f)
      [] f.task.kind = "conc" -> ConcurrentExecute(f)
      [] f.task.kind = "if" -> IfExecute(f)
      [] f.task.kind = "loop" -> LoopExecute(f)
      [] f.task.kind = "promise" -> PromiseExecute(f)

\* steps enough for any tree without a Loop that the model builds
ExecFuel == 4 * (MaxTasks + 2)

RECURSIVE RunFrom(_, _)
RunFrom(m, fuel) ==
    IF Len(m.stack) = 0 \/ fuel = 0 THEN m
    ELSE RunFrom(After(m, StepOf(m.stack[Len(m.stack)])), fuel - 1)

\* t.execute(s) run to its end: the result and the log of calls and returns
execute(t, s) ==
    RunFrom([stack |-> <<Frame(t, <<>>, s)>>, log |-> <<CallEvent(<<>>, s)>>,
             result |-> NoRet], ExecFuel)

\* the child of node t at position k
ChildAt(t, k) ==
    CASE t.kind \in {"seq", "or", "conc"} -> t.tasks[k]
      [] t.kind = "if" -> IF k = 0 THEN t.condition
                          ELSE IF k = 1 THEN t.then_do ELSE unwrap(t.default_do)
      [] t.kind = "loop" -> IF k = 0 THEN t.condition ELSE t.task
      [] t.kind = "promise" -> unwrap(t.other_tasks[k])

\* the node of tree t at path p
RECURSIVE NodeAt(_, _)
NodeAt(t, p) == IF Len(p) = 0 THEN t ELSE NodeAt(ChildAt(t, p[1]), Tail(p))

\* sequence([sequence([A, B]), C])
IsLeftNested(t) ==
    /\ t.kind = "seq"
    /\ Len(t.tasks) = 2
    /\ t.tasks[1].kind = "seq"
    /\ t.tasks[2].kind = "leaf"
\* sequence([A, B, C]) for the tree above
Flattened(t) == sequence_task(t.tasks[1].tasks \o <<t.tasks[2]>>)

\* the calls of the leaves of tree t in the log l, in order
LeafCalls(l, t) ==
    SelectSeq(l, LAMBDA e : e.ev = "call" /\ NodeAt(t, e.path).kind = "leaf")
\* the position in [A, B, C] of the leaf at path p, in either shape
NestedPos(p) == IF Len(p) = 2 THEN p[2] ELSE 3
FlatPos(p) == p[1]
\* the calls of A, B, C as <<position in [A, B, C], State>>
NestedTrace(l, t) ==
    [k \in 1..Len(LeafCalls(l, t)) |->
        <<NestedPos(LeafCalls(l, t)[k].path), LeafCalls(l, t)[k].val>>]
FlatTrace(l, t) ==
    [k \in 1..Len(LeafCalls(l, t)) |->
        <<FlatPos(LeafCalls(l, t)[k].path), LeafCalls(l, t)[k].val>>]

\* C16: Sequence composition is associative: sequence([sequence([A, B]), C])
\* returns what sequence([A, B, C]) returns on the same input, failures
\* included, and calls A, B, C in the same order on the same States.
C16_SequenceAssociative ==
    (Done /\ IsLeftNested(root)) =>
        LET flat == execute(Flattened(root), input)
        IN /\ flat.result # NoRet
           /\ result = flat.result
           /\ NestedTrace(log, root) = FlatTrace(flat.log, Flattened(root))

\* A succeeds, B fails, C is never called, in both shapes
C16_Witness ==
    /\ Done
    /\ root = sequence_task(<<sequence_task(<<new_task(Add(1)), new_task(Fail)>>),
                              new_task(Add(3))>>)
    /\ result = Err("NoResult")
    /\ NestedTrace(log, root) = <<<<1, input>>, <<2, TestState(input.num + 1)>>>>
    /\ execute(Flattened(root), input).result = Err("NoResult")

\* the proper ancestors of the node at path p, as paths
Ancestors(p) == {SubSeq(p, 1, n) : n \in 0..(Len(p) - 1)}

\* the node at p is inside a branch of an Or
UnderOr(p) == \E q \in Ancestors(p) : NodeAt(root, q).kind = "or"

\* the node at p is inside a branch of an Or that returned an error
UnderFailedOr(p) ==
    \E q \in Ancestors(p) :
        /\ NodeAt(root, q).kind = "or"
        /\ \E k \in 1..Len(log) : log[k] = RetEvent(q, Err("NoResult"))

IsErrorReturn(e) == e.ev = "ret" /\ e.val.tag = "Err"

\* C17 as stated: whenever a Task or Condition called during execute returns
\* an error, the root returns an error, unless the error came from a branch
\* of an Or all of whose branches failed.
C17_NoErrorDropped ==
    Done =>
        \A k \in 1..Len(log) :
            (IsErrorReturn(log[k]) /\ ~UnderFailedOr(log[k].path)) => ~is_ok(result)

\* C17 amended: whenever a Task or Condition called during execute returns
\* an error, the root returns an error, unless the error came from a branch
\* of an Or (whether every branch failed or a later branch succeeded).
C17_NoErrorDroppedOutsideOr ==
    Done =>
        \A k \in 1..Len(log) :
            (IsErrorReturn(log[k]) /\ ~UnderOr(log[k].path)) => ~is_ok(result)

\* an Or inside a Sequence dropped its first branch's error and succeeded;
\* the next child of the Sequence failed and the root returned the error
C17_Witness ==
    /\ Done
    /\ root = sequence_task(<<or_task(<<new_task(Fail), new_task(Add(1))>>), new_task(Fail)>>)
    /\ \E k \in 1..Len(log) : log[k] = RetEvent(<<1, 1>>, Err("NoResult"))
    /\ \E k \in 1..Len(log) : log[k] = RetEvent(<<1>>, Ok(TestState(input.num + 1)))
    /\ \E k \in 1..Len(log) : log[k] = RetEvent(<<2>>, Err("NoResult"))
    /\ result = Err("NoResult")

\* C18: when the Condition of an If fails, the If returns the Condition's
\* error and calls neither "then" nor "default".
C18_IfConditionErrorPropagates ==
    (root.kind = "if" /\ ~is_ok(ApplyCondition(root.condition, input))) =>
        /\ \A k \in 1..Len(ChildCalls) : ChildCalls[k] = CallEvent(<<0>>, input)
        /\ Len(ChildCalls) <= 1
        /\ Done =>
              /\ Len(ChildCalls) = 1
              /\ result = ChildRets[1].val
              /\ result = ApplyCondition(root.condition, input)

C18_Witness ==
    /\ Done
    /\ root = with_default(if_task(CondFail, new_task(Add(1))), new_task(Add(2)))
    /\ Len(ChildCalls) = 1
    /\ result = Err("NoResult")

\* C19: as implemented, a Concurrent calls none of its children and returns
\* Err(NoResult), for every child list and every input.
C19_ConcurrentIsStub ==
    root.kind = "conc" =>
        /\ Len(ChildCalls) = 0
        /\ Len(stack) <= 1
        /\ Done =>
              /\ result = Err("NoResult")
              /\ log = <<CallEvent(<<>>, input), RetEvent(<<>>, Err("NoResult"))>>

C19_Witness ==
    /\ Done
    /\ root = ConcurrentTask(PlusOneTwoThree)
    /\ Len(log) = 2
    /\ result = Err("NoResult")

\* C20: within a Loop, Condition evaluations and body executions alternate,
\* starting with the Condition; each body call follows a Condition that
\* returned true and runs on the State that Condition saw; a Loop that
\* returns Ok has evaluated the Condition once more than it ran the body.
C20_LoopAlternates ==
    root.kind = "loop" =>
        /\ \A k \in 1..Len(ChildCalls) :
              IF k % 2 = 1
              THEN ChildCalls[k].path = <<0>>
              ELSE /\ ChildCalls[k].path = <<1>>
                   /\ ChildRets[k - 1].val = OkBool(TRUE)
                   /\ ChildCalls[k].val = ChildCalls[k - 1].val
        /\ Len(ChildCalls) - Len(ChildRets) \in {0, 1}
        /\ (Done /\ is_ok(result)) => Len(ConditionCalls) = Len(BodyCalls) + 1

\* three tests and two body runs, then Ok
C20_Witness ==
    /\ Done
    /\ root = loop_task(Lt(2), new_task(Add(1)))
    /\ input = TestState(0)
    /\ Len(ConditionCalls) = 3
    /\ Len(BodyCalls) = 2
    /\ result = Ok(TestState(2))

====
